---- MODULE Spec2Model ----
(***************************************************************************)
(* Model of tools/devtools.py: the file mailbox through which a controller *)
(* (the CLI) drives a running Godot instance (the responder).              *)
(*                                                                         *)
(* Time is in milliseconds.  Only time.sleep lets time pass, and it lasts  *)
(* exactly the poll interval; every other statement is instantaneous.      *)
(* Every file operation of send_command is one step, so the responder can  *)
(* act between any two of them.                                            *)
(***************************************************************************)
EXTENDS Integers, Sequences, FiniteSets, TLC

VARIABLES
    projectExists,  \* project.godot is present in the project root
    dirExists,      \* the mailbox directory (user data path) exists
    commandsFile,   \* devtools_commands.json
    resultsFile,    \* devtools_results.json
    logFile,        \* devtools_log.jsonl
    ctl,            \* controller processes: position and locals of the call
    now,            \* wall clock, ms
    held,           \* responder: commands read and not yet answered
    observed,       \* responder: what its last read of the command file saw
    nCalls,         \* calls issued so far
    nWrites,        \* result-file writes done by the responder so far
    returns         \* the result-file writes that calls have returned, in order

vars == <<projectExists, dirExists, commandsFile, resultsFile, logFile,
          ctl, now, held, observed, nCalls, nWrites, returns>>

files == <<dirExists, commandsFile, resultsFile, logFile>>

----------------------------------------------------------------------------
(* Bounds *)

MaxCalls == 2
MaxWrites == 2
MaxTimeoutSteps == 2
TimeoutStep == 50
MaxLogLines == 1
MaxSeqTimeout == 2
MaxLogLen == 2

(* Program constants *)

PollInterval == 100
DefaultTimeout == 30
PingTimeout == 5
QuitTimeout == 5
ValidateAllTimeout == 60
SequenceGrace == 10
SequenceDefaultWait == 70
DefaultDepth == 10

Seconds(n) == n * 1000

----------------------------------------------------------------------------
(* Values *)

EmptyArgs == [k \in {} |-> 0]

\* openers: the controllers that hold the file open for writing; size: the
\* number of bytes of a content that is not one command record.
NoCommand == [exists |-> FALSE, complete |-> FALSE, action |-> "none",
              args |-> EmptyArgs, seq |-> 0, openers |-> {}, size |-> 0]

NoResult == [exists |-> FALSE, kind |-> "none", success |-> FALSE,
             message |-> "none", for |-> 0, wid |-> -1, late |-> FALSE,
             early |-> FALSE]

\* A result file left behind by an abandoned earlier call.
Leftover == [exists |-> TRUE, kind |-> "json", success |-> TRUE,
             message |-> "leftover", for |-> 0, wid |-> 0, late |-> TRUE,
             early |-> FALSE]

NoValue == [success |-> FALSE, message |-> "none", data |-> "none"]

\* What the bytes of a result file are: a complete JSON document, text that
\* is not (yet) a JSON document (empty or cut short), or bytes cut inside a
\* multi-byte UTF-8 character.
ResultKinds == {"json", "partial", "badutf8"}

Actions == {"ping", "screenshot"}

DirectArgs == {EmptyArgs}

Timeouts == {k * TimeoutStep : k \in 0..MaxTimeoutSteps}

IdleCtl == [pc |-> "idle", cmd |-> "none", action |-> "none",
            args |-> EmptyArgs, timeout |-> 0, start_time |-> 0, wake |-> 0,
            text |-> NoResult, result |-> NoValue, outcome |-> "none",
            err |-> EmptyArgs, seq |-> 0, stale |-> NoResult, ended |-> 0,
            input |-> EmptyArgs, sent |-> FALSE,
            exit |-> 0, reported |-> "none", dataRead |-> FALSE,
            output |-> <<>>, found |-> FALSE, overlap |-> FALSE]

Running(c) == ctl[c].pc \notin {"idle", "done", "exited"}

----------------------------------------------------------------------------
(* Path.read_text + json.loads, line 83 *)

\* read_text decodes the bytes as UTF-8 and json.loads parses the text.
\* The outcome is the parsed value, a JSONDecodeError or a
\* UnicodeDecodeError.
json_loads(file) ==
    IF file.kind = "json"
    THEN [raised |-> "none",
          value |-> [success |-> file.success, message |-> file.message,
                     data |-> "data"]]
    ELSE IF file.kind = "partial"
    THEN [raised |-> "JSONDecodeError", value |-> NoValue]
    ELSE [raised |-> "UnicodeDecodeError", value |-> NoValue]

\* json.dumps({"action": action, "args": args or {}}), lines 75-76
json_dumps(action, args, seq) ==
    [exists |-> TRUE, complete |-> TRUE, action |-> action, args |-> args,
     seq |-> seq, openers |-> {}, size |-> 0]

\* open(path, "w"): the file exists and is empty until the data is written
Truncated(seq) ==
    [exists |-> TRUE, complete |-> FALSE, action |-> "none",
     args |-> EmptyArgs, seq |-> seq, openers |-> {}, size |-> 0]

\* a record written over the start of a longer content: the bytes of the
\* record followed by the end of what was there, size bytes in all
Garbled(seq, size) ==
    [exists |-> TRUE, complete |-> FALSE, action |-> "none",
     args |-> EmptyArgs, seq |-> seq, openers |-> {}, size |-> size]

\* the number of bytes of json.dumps({"action": action, "args": {}}).
\* Commands with arguments are sent by the handlers only, one run alone on
\* the mailbox, where a record is never written over another content.
RecordBytes(action, args) ==
    CASE args = EmptyArgs -> 26 + Len(action)

\* the number of bytes in the command file
ContentBytes(file) ==
    IF file.complete THEN RecordBytes(file.action, file.args) ELSE file.size

\* the loop condition of line 80
LoopCondLate(t, start, timeout) == t - start < timeout + PollInterval

LoopCond(t, start, timeout) == t - start < timeout

\* TimeoutError(f"No response from Godot after {timeout}s. ..."), line 90:
\* the values the message carries
TimeoutMessageElapsed(c) == [timeout |-> now - ctl[c].start_time]

TimeoutMessage(c) == [timeout |-> ctl[c].timeout]

----------------------------------------------------------------------------
(* The end of a call *)

\* the call ends by returning or by raising: outcome names which
End(c, outcome, err) ==
    ctl' = [ctl EXCEPT ![c].pc = "done", ![c].outcome = outcome,
                       ![c].err = err, ![c].ended = now]

Goto(c, pc) == ctl' = [ctl EXCEPT ![c].pc = pc]

\* A new call begins.  Only differences of clock readings are ever used, so
\* the clock is read from zero again when no other call is under way.
\* overlap: another controller's call was under way during this call.
Begin(c, r) ==
    /\ ctl[c].pc \in {"idle", "done", "exited"}
    /\ nCalls < MaxCalls
    /\ nCalls' = nCalls + 1
    /\ ctl' = [d \in DOMAIN ctl |->
                 IF d = c
                 THEN [r EXCEPT !.seq = nCalls + 1, !.stale = resultsFile,
                                !.overlap = \E e \in DOMAIN ctl :
                                               e # c /\ Running(e)]
                 ELSE IF Running(d) THEN [ctl[d] EXCEPT !.overlap = TRUE]
                 ELSE ctl[d]]
    /\ now' = IF \E d \in DOMAIN ctl : d # c /\ Running(d) THEN now ELSE 0
    /\ UNCHANGED <<projectExists, files, held, observed, nWrites, returns>>

----------------------------------------------------------------------------
(* send_command, lines 62-90 *)

\* a caller invokes send_command(project_path, action, args, timeout)
SendCommand(c, action, args, timeout) ==
    Begin(c, [IdleCtl EXCEPT !.pc = "locate", !.cmd = "direct",
                             !.action = action, !.args = args,
                             !.timeout = timeout, !.sent = TRUE])

\* lines 64 and 240: get_user_data_path raises FileNotFoundError when
\* project.godot is absent (lines 38-40), otherwise yields the mailbox
\* directory; send_command then creates it,
\* line 65: user_data.mkdir(parents=True, exist_ok=True)
LocateMkdirFirst(c) ==
    /\ ctl[c].pc = "locate"
    /\ dirExists' = TRUE
    /\ IF projectExists
       THEN Goto(c, IF ctl[c].cmd = "logs" THEN "log_exists"
                                          ELSE "clear_exists")
       ELSE End(c, "FileNotFoundError", EmptyArgs)
    /\ UNCHANGED <<projectExists, commandsFile, resultsFile, logFile, now,
                   held, observed, nCalls, nWrites, returns>>

Locate(c) ==
    /\ ctl[c].pc = "locate"
    /\ IF projectExists
       THEN IF ctl[c].cmd = "logs"
            THEN /\ Goto(c, "log_exists")
                 /\ UNCHANGED dirExists
            ELSE /\ dirExists' = TRUE
                 /\ Goto(c, "clear_exists")
       ELSE /\ End(c, "FileNotFoundError", EmptyArgs)
            /\ UNCHANGED dirExists
    /\ UNCHANGED <<projectExists, commandsFile, resultsFile, logFile, now,
                   held, observed, nCalls, nWrites, returns>>

\* line 71: if results_path.exists()
ClearExistsNever(c) ==
    /\ ctl[c].pc = "clear_exists"
    /\ Goto(c, "open")
    /\ UNCHANGED <<projectExists, files, now, held, observed, nCalls,
                   nWrites, returns>>

ClearExists(c) ==
    /\ ctl[c].pc = "clear_exists"
    /\ Goto(c, IF resultsFile.exists THEN "clear_unlink" ELSE "open")
    /\ UNCHANGED <<projectExists, files, now, held, observed, nCalls,
                   nWrites, returns>>

\* line 72: results_path.unlink()
ClearUnlinkSkip(c) ==
    /\ ctl[c].pc = "clear_unlink"
    /\ Goto(c, "open")
    /\ UNCHANGED <<projectExists, files, now, held, observed, nCalls,
                   nWrites, returns>>

ClearUnlink(c) ==
    /\ ctl[c].pc = "clear_unlink"
    /\ IF resultsFile.exists
       THEN /\ resultsFile' = NoResult
            /\ Goto(c, "open")
       ELSE /\ End(c, "FileNotFoundError", EmptyArgs)
            /\ UNCHANGED resultsFile
    /\ UNCHANGED <<projectExists, dirExists, commandsFile, logFile, now,
                   held, observed, nCalls, nWrites, returns>>

\* line 76, first half: write_text opens the file for writing, which
\* creates it or truncates it to empty; a file that exists stays the same
\* file for those who hold it open
WriteOpen(c) ==
    /\ ctl[c].pc = "open"
    /\ commandsFile' = [Truncated(ctl[c].seq) EXCEPT
                           !.openers = commandsFile.openers \cup {c}]
    /\ Goto(c, "write")
    /\ UNCHANGED <<projectExists, dirExists, resultsFile, logFile, now,
                   held, observed, nCalls, nWrites, returns>>

\* line 76, second half: the serialized command is written at the start of
\* the file that was opened and the file is closed.  Nothing truncates
\* again: what another controller has written there since stays beyond the
\* end of the record; and when the file opened has been removed since, the
\* bytes go to the removed file and the command file is what it is.
\* line 79: start_time = time.time()
WriteData(c) ==
    /\ ctl[c].pc = "write"
    /\ commandsFile' =
         IF c \notin commandsFile.openers THEN commandsFile
         ELSE IF \/ ContentBytes(commandsFile) = 0
                 \/ ContentBytes(commandsFile)
                       <= RecordBytes(ctl[c].action, ctl[c].args)
         THEN [json_dumps(ctl[c].action, ctl[c].args, ctl[c].seq) EXCEPT
                  !.openers = commandsFile.openers \ {c}]
         ELSE [Garbled(ctl[c].seq, ContentBytes(commandsFile)) EXCEPT
                  !.openers = commandsFile.openers \ {c}]
    /\ ctl' = [ctl EXCEPT ![c].pc = "loop", ![c].start_time = now,
                          ![c].wake = now]
    /\ UNCHANGED <<projectExists, dirExists, resultsFile, logFile, now,
                   held, observed, nCalls, nWrites, returns>>

\* line 80: while time.time() - start_time < timeout, evaluated on entry
\* and whenever the sleep of line 88 is over;
\* line 90: raise TimeoutError(...) once the condition is false
LoopHeadCleanup(c) ==
    /\ ctl[c].pc = "loop"
    /\ now >= ctl[c].wake
    /\ IF LoopCond(now, ctl[c].start_time, ctl[c].timeout)
       THEN /\ Goto(c, "poll")
            /\ UNCHANGED resultsFile
       ELSE /\ End(c, "TimeoutError", TimeoutMessage(c))
            /\ resultsFile' = NoResult
    /\ UNCHANGED <<projectExists, dirExists, commandsFile, logFile, now,
                   held, observed, nCalls, nWrites, returns>>

LoopHead(c) ==
    /\ ctl[c].pc = "loop"
    /\ now >= ctl[c].wake
    /\ IF LoopCond(now, ctl[c].start_time, ctl[c].timeout)
       THEN Goto(c, "poll")
       ELSE End(c, "TimeoutError", TimeoutMessage(c))
    /\ UNCHANGED <<projectExists, files, now, held, observed, nCalls,
                   nWrites, returns>>

\* line 88: time.sleep(0.1), then back to the loop condition
Sleep(c) ==
    ctl' = [ctl EXCEPT ![c].pc = "loop", ![c].wake = now + PollInterval]

\* line 81: if results_path.exists(); when it does not, line 88
PollExistsBlind(c) ==
    /\ ctl[c].pc = "poll"
    /\ Sleep(c)
    /\ UNCHANGED <<projectExists, files, now, held, observed, nCalls,
                   nWrites, returns>>

PollExists(c) ==
    /\ ctl[c].pc = "poll"
    /\ IF resultsFile.exists
       THEN ctl' = [ctl EXCEPT ![c].pc = "read", ![c].found = TRUE]
       ELSE Sleep(c)
    /\ UNCHANGED <<projectExists, files, now, held, observed, nCalls,
                   nWrites, returns>>

\* line 83: result = json.loads(results_path.read_text(encoding="utf-8"));
\* lines 86-87: a JSONDecodeError, and no other exception, is caught and
\* the loop goes on with line 88
ReadResult(c) ==
    /\ ctl[c].pc = "read"
    /\ IF ~resultsFile.exists
       THEN End(c, "FileNotFoundError", EmptyArgs)
       ELSE LET r == json_loads(resultsFile) IN
            IF r.raised = "none"
            THEN ctl' = [ctl EXCEPT ![c].pc = "consume",
                                    ![c].text = resultsFile,
                                    ![c].result = r.value]
            ELSE IF r.raised = "JSONDecodeError"
            THEN Sleep(c)
            ELSE End(c, r.raised, EmptyArgs)
    /\ UNCHANGED <<projectExists, files, now, held, observed, nCalls,
                   nWrites, returns>>

\* line 84: results_path.unlink(); line 85: return result
ConsumeKeep(c) ==
    /\ ctl[c].pc = "consume"
    /\ End(c, "returned", EmptyArgs)
    /\ returns' = Append(returns, ctl[c].text.wid)
    /\ UNCHANGED <<projectExists, files, now, held, observed, nCalls,
                   nWrites>>

ConsumeUnlink(c) ==
    /\ ctl[c].pc = "consume"
    /\ IF resultsFile.exists
       THEN /\ resultsFile' = NoResult
            /\ End(c, "returned", EmptyArgs)
            /\ returns' = Append(returns, ctl[c].text.wid)
       ELSE /\ End(c, "FileNotFoundError", EmptyArgs)
            /\ UNCHANGED <<resultsFile, returns>>
    /\ UNCHANGED <<projectExists, dirExists, commandsFile, logFile, now,
                   held, observed, nCalls, nWrites>>

----------------------------------------------------------------------------
(* cmd_logs, lines 238-263 *)

\* Lines of a log file.  The responder writes one JSON object per line with
\* the fields timestamp, category and message; the other lines stand for
\* what else a line can be: an object without those fields, JSON that is
\* not an object, text that is not JSON, and an empty line.
LineA == "{\"timestamp\":3661,\"category\":\"A\",\"message\":\"m\"}"

LineB == "{\"timestamp\": 0, \"category\": \"B\", \"message\": \"m\"}"

LineNoFields == "{\"category\":\"A\"}"

LineNotObject == "42"

LineNotJson == "not json"

LineBlank == ""

LineReceived ==
    "{\"timestamp\":0,\"category\":\"devtools\",\"message\":\"command\"}"

LineComplete ==
    "{\"timestamp\":0,\"category\":\"input\",\"message\":\"sequence complete\"}"

LogLineSet == {LineA, LineB, LineNoFields, LineNotObject, LineNotJson,
               LineBlank}

\* --category: absent ("") or a category name
Categories == {"", "A", "B"}

\* json.loads(line), line 257: a JSONDecodeError, or the parsed value, which
\* is an object (its fields) or not
line_loads(line) ==
    CASE line = LineA ->
            [raised |-> "none", object |-> TRUE,
             value |-> [timestamp |-> 3661, category |-> "A", message |-> "m"]]
      [] line = LineB ->
            [raised |-> "none", object |-> TRUE,
             value |-> [timestamp |-> 0, category |-> "B", message |-> "m"]]
      [] line = LineReceived ->
            [raised |-> "none", object |-> TRUE,
             value |-> [timestamp |-> 0, category |-> "devtools",
                        message |-> "command"]]
      [] line = LineComplete ->
            [raised |-> "none", object |-> TRUE,
             value |-> [timestamp |-> 0, category |-> "input",
                        message |-> "sequence complete"]]
      [] line = LineNoFields ->
            [raised |-> "none", object |-> TRUE, value |-> [category |-> "A"]]
      [] line = LineNotObject ->
            [raised |-> "none", object |-> FALSE, value |-> EmptyArgs]
      [] OTHER ->
            [raised |-> "JSONDecodeError", object |-> FALSE,
             value |-> EmptyArgs]

\* line 249: f'"category":"{c}"' in l or f'"category": "{c}"' in l
\* The category whose text, in either spacing, the line contains.
CategoryText(line) ==
    CASE line = LineA -> "A"
      [] line = LineB -> "B"
      [] line = LineNoFields -> "A"
      [] line = LineReceived -> "devtools"
      [] line = LineComplete -> "input"
      [] OTHER -> ""

Matches(line, category) == CategoryText(line) = category

\* The time zone of the process, as seconds east of UTC: UTC, JST-9,
\* IST-5:30, EST5.
Zones == {0, 32400, 19800, -18000}

\* time.strftime("%H:%M:%S", time.localtime(t)), line 258: hour, minute
\* and second of t in the zone of the process, tz seconds east of UTC
strftime(t, tz) ==
    <<((t + tz) \div 3600) % 24, ((t + tz) \div 60) % 60, (t + tz) % 60>>

RECURSIVE LStrip(_)
\* str.strip() on the text of the file, line 247: the empty lines at its
\* start and at its end go with the line ends around them
LStrip(lines) ==
    IF lines # <<>> /\ Head(lines) = LineBlank THEN LStrip(Tail(lines))
    ELSE lines

RECURSIVE RStrip(_)
RStrip(lines) ==
    IF lines # <<>> /\ lines[Len(lines)] = LineBlank
    THEN RStrip(SubSeq(lines, 1, Len(lines) - 1))
    ELSE lines

\* line 247: read_text().strip().split("\n"); splitting the empty text
\* gives one empty line
StripSplit(lines) ==
    IF RStrip(LStrip(lines)) = <<>> THEN <<LineBlank>>
    ELSE RStrip(LStrip(lines))

RECURSIVE Filter(_, _)
\* lines 248-250: the lines kept by --category
Filter(lines, category) ==
    IF lines = <<>> THEN <<>>
    ELSE IF Matches(Head(lines), category)
    THEN <<Head(lines)>> \o Filter(Tail(lines), category)
    ELSE Filter(Tail(lines), category)

\* lines[-n:], line 253
LastSlice(lines, n) ==
    IF n > 0
    THEN SubSeq(lines, IF Len(lines) > n THEN Len(lines) - n + 1 ELSE 1,
                Len(lines))
    ELSE SubSeq(lines, 1 - n, Len(lines))

\* lines 247-253: the lines the reader goes on to print; tail is <<>> when
\* --tail is absent and <<n>> when it is n
Selected(lines, category, tail) ==
    LET all == StripSplit(lines)
        kept == IF category # "" THEN Filter(all, category) ELSE all
    IN  IF tail # <<>> /\ tail[1] # 0 THEN LastSlice(kept, tail[1])
        ELSE kept

\* lines 256-263 for one line: what is printed, or the exception that
\* leaves the reader (only JSONDecodeError is caught)
PrintLine(line, tz) ==
    LET p == line_loads(line) IN
    IF p.raised = "JSONDecodeError"
    THEN [raised |-> "none", out |-> [raw |-> TRUE, text |-> line]]
    ELSE IF ~p.object
    THEN [raised |-> "TypeError", out |-> EmptyArgs]
    ELSE IF {"timestamp", "category", "message"} \subseteq DOMAIN p.value
    THEN [raised |-> "none",
          out |-> [raw |-> FALSE, ts |-> strftime(p.value.timestamp, tz),
                   category |-> p.value.category,
                   message |-> p.value.message]]
    ELSE [raised |-> "KeyError", out |-> EmptyArgs]

RECURSIVE PrintLines(_, _)
\* lines 255-263: the loop over the lines, up to the first exception
PrintLines(lines, tz) ==
    IF lines = <<>> THEN [raised |-> "none", out |-> <<>>]
    ELSE LET first == PrintLine(Head(lines), tz) IN
         IF first.raised # "none"
         THEN [raised |-> first.raised, out |-> <<>>]
         ELSE LET rest == PrintLines(Tail(lines), tz) IN
              [raised |-> rest.raised, out |-> <<first.out>> \o rest.out]

\* the log reader is run with --category and --tail, in a process whose
\* time zone is tz
CmdLogs(c, category, tail, tz) ==
    Begin(c, [IdleCtl EXCEPT !.pc = "locate", !.cmd = "logs",
                             !.input = [category |-> category,
                                        tail |-> tail, tz |-> tz]])

\* line 243: if not log_path.exists(): "No logs found";
\* lines 247-263: otherwise the lines are read, selected and printed
LogReadTruncate(c) ==
    /\ ctl[c].pc = "log_exists"
    /\ IF logFile.exists
       THEN /\ ctl' = [ctl EXCEPT ![c].pc = "done",
                                  ![c].outcome = "printed",
                                  ![c].output = <<>>, ![c].ended = now]
            /\ logFile' = [exists |-> TRUE, lines |-> <<>>]
       ELSE /\ End(c, "no_logs", EmptyArgs)
            /\ UNCHANGED logFile
    /\ UNCHANGED <<projectExists, dirExists, commandsFile, resultsFile, now,
                   held, observed, nCalls, nWrites, returns>>

LogRead(c) ==
    /\ ctl[c].pc = "log_exists"
    /\ IF logFile.exists
       THEN LET r == PrintLines(Selected(logFile.lines,
                                         ctl[c].input.category,
                                         ctl[c].input.tail),
                                ctl[c].input.tz)
            IN  ctl' = [ctl EXCEPT ![c].pc = "done",
                                   ![c].outcome = IF r.raised = "none"
                                                  THEN "printed"
                                                  ELSE r.raised,
                                   ![c].output = r.out,
                                   ![c].ended = now]
       ELSE End(c, "no_logs", EmptyArgs)
    /\ UNCHANGED <<projectExists, files, now, held, observed, nCalls,
                   nWrites, returns>>

----------------------------------------------------------------------------
(* The command handlers, lines 93-405.  One run of the program executes    *)
(* one handler (lines 508-511).  A handler calls send_command and, when    *)
(* the call is over, prints and sets the exit status: exit is the status,  *)
(* reported the Result's message if the handler printed it, dataRead       *)
(* whether the handler read the Result's data.                             *)

\* a handler calls send_command(project_path, action, args, timeout)
Call(c, cmd, input, action, args, timeout) ==
    Begin(c, [IdleCtl EXCEPT !.pc = "locate", !.cmd = cmd, !.input = input,
                             !.action = action, !.args = args,
                             !.timeout = timeout, !.sent = TRUE])

\* a handler prints an error and calls sys.exit(1), or an exception leaves
\* it, without sending anything
Refuse(c, cmd, input) ==
    Begin(c, [IdleCtl EXCEPT !.pc = "exited", !.cmd = cmd, !.input = input,
                             !.exit = 1])

Out(exit, reported, dataRead) ==
    [exit |-> exit, reported |-> reported, dataRead |-> dataRead]

\* an exception leaves the handler: traceback, exit status 1
Uncaught == Out(1, "none", FALSE)

\* print(f"Failed: {result['message']}", file=sys.stderr); sys.exit(1)
Failed(r) == Out(1, r.message, FALSE)

\* lines 93-101
cmd_screenshot(c, filename) ==
    Call(c, "screenshot", [filename |-> filename], "screenshot",
         IF filename # "" THEN [filename |-> filename] ELSE EmptyArgs,
         Seconds(DefaultTimeout))

cmd_screenshot_out(o) ==
    IF o.outcome # "returned" THEN Uncaught
    ELSE IF o.result.success THEN Out(0, "none", TRUE)
    ELSE Failed(o.result)

\* lines 119-141
print_validation_result(r) ==
    Out(IF r.success THEN 0 ELSE 1, r.message, TRUE)

\* lines 104-110
cmd_validate(c, scene) ==
    IF scene = ""
    THEN Refuse(c, "validate", [scene |-> scene])
    ELSE Call(c, "validate", [scene |-> scene], "validate_scene",
              [path |-> scene], Seconds(DefaultTimeout))

cmd_validate_out(o) ==
    IF o.outcome # "returned" THEN Uncaught
    ELSE print_validation_result(o.result)

\* lines 113-116
cmd_validate_all(c) ==
    Call(c, "validate-all", EmptyArgs, "validate_all_scenes", EmptyArgs,
         Seconds(ValidateAllTimeout))

cmd_validate_all_out(o) ==
    IF o.outcome # "returned" THEN Uncaught
    ELSE print_validation_result(o.result)

\* lines 144-151
cmd_scene_tree(c, depth) ==
    Call(c, "scene-tree", [depth |-> depth], "scene_tree",
         [depth |-> depth], Seconds(DefaultTimeout))

cmd_scene_tree_exit0(o) ==
    IF o.outcome # "returned" THEN Uncaught
    ELSE IF o.result.success THEN Out(0, "none", TRUE)
    ELSE Out(0, o.result.message, FALSE)

cmd_scene_tree_out(o) ==
    IF o.outcome # "returned" THEN Uncaught
    ELSE IF o.result.success THEN Out(0, "none", TRUE)
    ELSE Failed(o.result)

\* lines 154-172
cmd_performance(c) ==
    Call(c, "performance", EmptyArgs, "performance", EmptyArgs,
         Seconds(DefaultTimeout))

cmd_performance_out(o) ==
    IF o.outcome # "returned" THEN Uncaught
    ELSE IF o.result.success THEN Out(0, "none", TRUE)
    ELSE Failed(o.result)

\* lines 175-182
cmd_get_state(c, node) ==
    Call(c, "get-state", [node |-> node], "get_state",
         IF node # "" THEN [node_path |-> node] ELSE EmptyArgs,
         Seconds(DefaultTimeout))

cmd_get_state_out(o) ==
    IF o.outcome # "returned" THEN Uncaught
    ELSE IF o.result.success THEN Out(0, "none", TRUE)
    ELSE Failed(o.result)

\* s twice over
Twice(s) == s \o s

\* a token of 8192 decimal digits
LongDigits ==
    Twice(Twice(Twice(Twice(Twice(Twice(Twice(Twice(Twice(Twice(Twice(Twice(
    Twice("9")))))))))))))

\* The value tokens of set-state and what the three parsers of lines
\* 189-199 make of each: json.loads, int, float.  A parser that raises
\* yields Raises of the exception.
Tokens == {"42", "3.14", "\"42\"", "true", "null", "hello", "+5", ".5",
           LongDigits}

Raises(e) == [t |-> "raises", v |-> e]

\* json.loads(args.value), line 190; an integer literal of more than 4300
\* digits raises ValueError, which is not a JSONDecodeError
json_parse(tok) ==
    CASE tok = "42" -> [t |-> "int", v |-> "42"]
      [] tok = "3.14" -> [t |-> "float", v |-> "3.14"]
      [] tok = "\"42\"" -> [t |-> "str", v |-> "42"]
      [] tok = "true" -> [t |-> "bool", v |-> "true"]
      [] tok = "null" -> [t |-> "null", v |-> "null"]
      [] tok = LongDigits -> Raises("ValueError")
      [] OTHER -> Raises("JSONDecodeError")

\* int(args.value), line 194
int_parse(tok) ==
    CASE tok = "42" -> [t |-> "int", v |-> "42"]
      [] tok = "+5" -> [t |-> "int", v |-> "5"]
      [] OTHER -> Raises("ValueError")

\* float(args.value), line 197
float_parse(tok) ==
    CASE tok = "42" -> [t |-> "float", v |-> "42.0"]
      [] tok = "3.14" -> [t |-> "float", v |-> "3.14"]
      [] tok = "+5" -> [t |-> "float", v |-> "5.0"]
      [] tok = ".5" -> [t |-> "float", v |-> "0.5"]
      [] tok = LongDigits -> [t |-> "float", v |-> "inf"]
      [] OTHER -> Raises("ValueError")

\* lines 187-199: each except clause catches one kind of exception; any
\* other leaves the handler
Coerce(tok) ==
    IF json_parse(tok).t # "raises" THEN json_parse(tok)
    ELSE IF json_parse(tok).v # "JSONDecodeError" THEN json_parse(tok)
    ELSE IF int_parse(tok).t # "raises" THEN int_parse(tok)
    ELSE IF float_parse(tok).t # "raises" THEN float_parse(tok)
    ELSE [t |-> "str", v |-> tok]

\* lines 185-210
cmd_set_state(c, node, property, value) ==
    IF Coerce(value).t = "raises"
    THEN Refuse(c, "set-state",
                [node |-> node, property |-> property, value |-> value])
    ELSE Call(c, "set-state",
              [node |-> node, property |-> property, value |-> value],
              "set_state",
              [node_path |-> node, property |-> property,
               value |-> Coerce(value)],
              Seconds(DefaultTimeout))

cmd_set_state_out(o) ==
    IF o.outcome # "returned" THEN Uncaught
    ELSE IF o.result.success THEN Out(0, "none", FALSE)
    ELSE Failed(o.result)

\* --args of run-method: absent, a JSON array, JSON that is no array, or
\* not JSON
MethodArgs == {"", "[25]", "{}", "[25"}

\* lines 213-235
cmd_run_method(c, node, method, a) ==
    IF a \in {"{}", "[25"}
    THEN Refuse(c, "run-method", [node |-> node, method |-> method,
                                  args |-> a])
    ELSE Call(c, "run-method", [node |-> node, method |-> method,
                                args |-> a],
              "run_method",
              [node_path |-> node, method |-> method,
               args |-> IF a = "" THEN "[]" ELSE a],
              Seconds(DefaultTimeout))

cmd_run_method_out(o) ==
    IF o.outcome # "returned" THEN Uncaught
    ELSE IF o.result.success THEN Out(0, "none", TRUE)
    ELSE Failed(o.result)

\* lines 266-277
cmd_ping(c) ==
    Call(c, "ping", EmptyArgs, "ping", EmptyArgs, Seconds(PingTimeout))

cmd_ping_out(o) ==
    IF o.outcome = "TimeoutError" THEN Out(1, "none", FALSE)
    ELSE IF o.outcome # "returned" THEN Uncaught
    ELSE IF o.result.success THEN Out(0, "none", TRUE)
    ELSE Out(1, "none", FALSE)

\* lines 280-286; exit_code is <<>> when --exit-code is not given
cmd_quit(c, exit_code) ==
    Call(c, "quit", [exit_code |-> exit_code], "quit",
         [exit_code |-> IF exit_code = <<>> \/ exit_code = <<0>>
                        THEN 0 ELSE exit_code[1]],
         Seconds(QuitTimeout))

cmd_quit_out(o) ==
    IF o.outcome \in {"returned", "TimeoutError"} THEN Out(0, "none", FALSE)
    ELSE Uncaught

\* lines 292-305; strength is <<>> when --strength is not given
cmd_input_press(c, name, strength) ==
    Call(c, "input press", [action |-> name, strength |-> strength],
         "input_press",
         IF strength # <<>>
         THEN [action |-> name, strength |-> strength[1]]
         ELSE [action |-> name],
         Seconds(DefaultTimeout))

cmd_input_press_out(o) ==
    IF o.outcome # "returned" THEN Uncaught
    ELSE IF o.result.success THEN Out(0, "none", TRUE)
    ELSE Failed(o.result)

\* lines 308-317
cmd_input_release(c, name) ==
    Call(c, "input release", [action |-> name], "input_release",
         [action |-> name], Seconds(DefaultTimeout))

cmd_input_release_out(o) ==
    IF o.outcome # "returned" THEN Uncaught
    ELSE IF o.result.success THEN Out(0, "none", TRUE)
    ELSE Failed(o.result)

\* lines 320-334
cmd_input_tap(c, name, hold, strength) ==
    Call(c, "input tap",
         [action |-> name, hold |-> hold, strength |-> strength],
         "input_tap",
         IF hold # 0 /\ strength # <<>>
         THEN [action |-> name, hold_seconds |-> hold,
               strength |-> strength[1]]
         ELSE IF hold # 0 THEN [action |-> name, hold_seconds |-> hold]
         ELSE IF strength # <<>>
         THEN [action |-> name, strength |-> strength[1]]
         ELSE [action |-> name],
         Seconds(DefaultTimeout))

cmd_input_tap_out(o) ==
    IF o.outcome # "returned" THEN Uncaught
    ELSE IF o.result.success THEN Out(0, "none", FALSE)
    ELSE Failed(o.result)

\* lines 337-348
cmd_input_clear(c) ==
    Call(c, "input clear", EmptyArgs, "input_clear", EmptyArgs,
         Seconds(DefaultTimeout))

cmd_input_clear_out(o) ==
    IF o.outcome # "returned" THEN Uncaught
    ELSE IF o.result.success THEN Out(0, "none", TRUE)
    ELSE Failed(o.result)

\* lines 351-368
cmd_input_list(c, all) ==
    Call(c, "input list", [all |-> all], "input_actions",
         [include_builtin |-> all], Seconds(DefaultTimeout))

cmd_input_list_out(o) ==
    IF o.outcome # "returned" THEN Uncaught
    ELSE IF o.result.success THEN Out(0, "none", TRUE)
    ELSE Failed(o.result)

\* The sequence file: missing, not JSON, without steps, or with steps.
SequenceFiles == {"missing", "invalid", "nosteps", "steps"}

\* lines 371-399; T is --timeout, in seconds
cmd_input_sequence(c, file, T) ==
    IF file # "steps"
    THEN Refuse(c, "input sequence", [file |-> file, timeout |-> T])
    ELSE Call(c, "input sequence", [file |-> file, timeout |-> T],
              "input_sequence",
              IF T # 0 THEN [steps |-> file, timeout |-> T]
                       ELSE [steps |-> file],
              IF T # 0 THEN Seconds(T + SequenceGrace)
                       ELSE Seconds(SequenceDefaultWait))

\* lines 400-405: the Result alone decides; neither the result file nor the
\* log is looked at again
cmd_input_sequence_await(o) ==
    IF o.outcome # "returned" THEN Uncaught
    ELSE IF o.result.success
    THEN Out(IF \E i \in 1..Len(logFile.lines) :
                    logFile.lines[i] = LineComplete THEN 0 ELSE 1,
             "none", TRUE)
    ELSE Failed(o.result)

cmd_input_sequence_out(o) ==
    IF o.outcome # "returned" THEN Uncaught
    ELSE IF o.result.success THEN Out(0, "none", TRUE)
    ELSE Failed(o.result)

\* what the handler of the command does once send_command is over
HandlerOut(o) ==
    CASE o.cmd = "screenshot" -> cmd_screenshot_out(o)
      [] o.cmd = "validate" -> cmd_validate_out(o)
      [] o.cmd = "validate-all" -> cmd_validate_all_out(o)
      [] o.cmd = "scene-tree" -> cmd_scene_tree_out(o)
      [] o.cmd = "performance" -> cmd_performance_out(o)
      [] o.cmd = "get-state" -> cmd_get_state_out(o)
      [] o.cmd = "set-state" -> cmd_set_state_out(o)
      [] o.cmd = "run-method" -> cmd_run_method_out(o)
      [] o.cmd = "ping" -> cmd_ping_out(o)
      [] o.cmd = "quit" -> cmd_quit_out(o)
      [] o.cmd = "input press" -> cmd_input_press_out(o)
      [] o.cmd = "input release" -> cmd_input_release_out(o)
      [] o.cmd = "input tap" -> cmd_input_tap_out(o)
      [] o.cmd = "input clear" -> cmd_input_clear_out(o)
      [] o.cmd = "input list" -> cmd_input_list_out(o)
      [] o.cmd = "input sequence" -> cmd_input_sequence_out(o)

\* send_command is over and the handler finishes; the process exits
Exit(c) ==
    /\ ctl[c].pc = "done"
    /\ ctl[c].cmd \notin {"direct", "logs"}
    /\ LET out == HandlerOut(ctl[c]) IN
       ctl' = [ctl EXCEPT ![c].pc = "exited", ![c].exit = out.exit,
                          ![c].reported = out.reported,
                          ![c].dataRead = out.dataRead]
    /\ UNCHANGED <<projectExists, files, now, held, observed, nCalls,
                   nWrites, returns>>

----------------------------------------------------------------------------
(* The clock *)

Sleepers == {c \in DOMAIN ctl : ctl[c].pc = "loop" /\ ctl[c].wake > now}

\* Time passes only while every running controller sleeps, up to the next
\* wake-up.
Tick ==
    /\ Sleepers # {}
    /\ \A c \in DOMAIN ctl : Running(c) => c \in Sleepers
    /\ \E c \in Sleepers :
         /\ \A d \in Sleepers : ctl[c].wake <= ctl[d].wake
         /\ now' = ctl[c].wake
    /\ UNCHANGED <<projectExists, files, ctl, held, observed, nCalls,
                   nWrites, returns>>

----------------------------------------------------------------------------
(* The responder (the DevTools autoload inside the game) *)

\* what the responder holds while it plays an accepted input sequence
RunningSequence == "sequence running"

\* The model follows the responder while a call is under way or still to
\* come.
Watching == nCalls < MaxCalls \/ \E c \in DOMAIN ctl : Running(c)

\* The responder reads the command file.  A complete command is taken up,
\* logged, and the file removed (the responder removes the command file
\* before it writes its result); an empty file is left alone.
RespRead ==
    /\ Watching
    /\ commandsFile.exists
    /\ observed' = commandsFile
    /\ IF commandsFile.complete
       THEN /\ held' = held \cup {[action |-> commandsFile.action,
                                   seq |-> commandsFile.seq]}
            /\ commandsFile' = NoCommand
            /\ logFile' = IF Len(logFile.lines) < MaxLogLines
                          THEN [exists |-> TRUE,
                                lines |-> Append(logFile.lines, LineReceived)]
                          ELSE logFile
       ELSE UNCHANGED <<held, commandsFile, logFile>>
    /\ UNCHANGED <<projectExists, dirExists, resultsFile, ctl, now,
                   nCalls, nWrites, returns>>

\* The responder writes (or is part-way through writing) its answer to a
\* command it holds.  late: the call that issued the command is over;
\* early: that call is waiting and its deadline is still ahead.  An input
\* sequence the responder accepts it goes on to run.
RespWrite(h, kind, success) ==
    /\ Watching
    /\ h \in held
    /\ h.action # RunningSequence
    /\ nWrites < MaxWrites
    /\ nWrites' = nWrites + 1
    /\ resultsFile' =
         [exists |-> TRUE, kind |-> kind,
          success |-> (kind = "json" /\ success),
          message |-> h.action, for |-> h.seq, wid |-> nWrites + 1,
          late |-> ~(\E c \in DOMAIN ctl :
                        Running(c) /\ ctl[c].seq = h.seq),
          early |-> \E c \in DOMAIN ctl :
                       /\ ctl[c].seq = h.seq
                       /\ ctl[c].pc \in {"loop", "poll", "read"}
                       /\ now < ctl[c].start_time + ctl[c].timeout]
    /\ held' = IF kind # "json" THEN held
               ELSE IF h.action = "input_sequence" /\ success
               THEN (held \ {h}) \cup {[action |-> RunningSequence,
                                        seq |-> h.seq]}
               ELSE held \ {h}
    /\ UNCHANGED <<projectExists, dirExists, commandsFile, logFile, ctl, now,
                   observed, nCalls, returns>>

\* The responder has played the last step of a sequence it accepted and
\* appends the "sequence complete" entry to the log.
RespComplete(h) ==
    /\ h \in held
    /\ h.action = RunningSequence
    /\ held' = held \ {h}
    /\ logFile' = [exists |-> TRUE,
                   lines |-> Append(logFile.lines, LineComplete)]
    /\ UNCHANGED <<projectExists, dirExists, commandsFile, resultsFile, ctl,
                   now, observed, nCalls, nWrites, returns>>

----------------------------------------------------------------------------
(* One controller calling send_command directly *)

NoLog == [exists |-> FALSE, lines |-> <<>>]

OldLog == [exists |-> TRUE, lines |-> <<LineReceived>>]

\* The mailbox before the first call: never used (no directory), used and
\* empty, or holding what an abandoned call left behind.
Init ==
    /\ projectExists \in BOOLEAN
    /\ \E used \in BOOLEAN, left \in BOOLEAN :
         /\ dirExists = used
         /\ resultsFile = IF used /\ left THEN Leftover ELSE NoResult
         /\ logFile = IF used /\ left THEN OldLog ELSE NoLog
    /\ commandsFile = NoCommand
    /\ ctl = [c \in {1} |-> IdleCtl]
    /\ now = 0
    /\ held = {}
    /\ observed = NoCommand
    /\ nCalls = 0
    /\ nWrites = 0
    /\ returns = <<>>

Next ==
    \/ \E c \in DOMAIN ctl, action \in Actions, args \in DirectArgs,
          timeout \in Timeouts : SendCommand(c, action, args, timeout)
    \/ \E c \in DOMAIN ctl : CmdLogs(c, "", <<>>, 0)
    \/ \E c \in DOMAIN ctl : LogRead(c)
    \/ \E c \in DOMAIN ctl : Locate(c)
    \/ \E c \in DOMAIN ctl : ClearExists(c)
    \/ \E c \in DOMAIN ctl : ClearUnlink(c)
    \/ \E c \in DOMAIN ctl : WriteOpen(c)
    \/ \E c \in DOMAIN ctl : WriteData(c)
    \/ \E c \in DOMAIN ctl : LoopHead(c)
    \/ \E c \in DOMAIN ctl : PollExists(c)
    \/ \E c \in DOMAIN ctl : ReadResult(c)
    \/ \E c \in DOMAIN ctl : ConsumeUnlink(c)
    \/ Tick
    \/ RespRead
    \/ \E h \in held, kind \in ResultKinds, success \in BOOLEAN :
         RespWrite(h, kind, success)

Spec == Init /\ [][Next]_vars

----------------------------------------------------------------------------
(* One run of the program with one of the command handlers.  The responder *)
(* acts before the first poll interval is over or not at all.              *)

Prompt == now < PollInterval

FirstRun == nCalls = 0

Nodes == {"", "/root/Game"}

NextFacade ==
    \/ \E c \in DOMAIN ctl, f \in {"", "shot.png"} :
         FirstRun /\ cmd_screenshot(c, f)
    \/ \E c \in DOMAIN ctl, scene \in {"", "res://main.tscn"} :
         FirstRun /\ cmd_validate(c, scene)
    \/ \E c \in DOMAIN ctl : FirstRun /\ cmd_validate_all(c)
    \/ \E c \in DOMAIN ctl : FirstRun /\ cmd_scene_tree(c, DefaultDepth)
    \/ \E c \in DOMAIN ctl : FirstRun /\ cmd_performance(c)
    \/ \E c \in DOMAIN ctl, node \in Nodes : FirstRun /\ cmd_get_state(c, node)
    \/ \E c \in DOMAIN ctl, tok \in Tokens :
         FirstRun /\ cmd_set_state(c, "/root/Game", "Health", tok)
    \/ \E c \in DOMAIN ctl, a \in MethodArgs :
         FirstRun /\ cmd_run_method(c, "/root/Game", "hit", a)
    \/ \E c \in DOMAIN ctl : FirstRun /\ cmd_ping(c)
    \/ \E c \in DOMAIN ctl, code \in {<<>>, <<0>>, <<3>>} :
         FirstRun /\ cmd_quit(c, code)
    \/ \E c \in DOMAIN ctl, strength \in {<<>>, <<1>>} :
         FirstRun /\ cmd_input_press(c, "jump", strength)
    \/ \E c \in DOMAIN ctl : FirstRun /\ cmd_input_release(c, "jump")
    \/ \E c \in DOMAIN ctl, hold \in {0, 2}, strength \in {<<>>, <<1>>} :
         FirstRun /\ cmd_input_tap(c, "jump", hold, strength)
    \/ \E c \in DOMAIN ctl : FirstRun /\ cmd_input_clear(c)
    \/ \E c \in DOMAIN ctl, all \in BOOLEAN :
         FirstRun /\ cmd_input_list(c, all)
    \/ \E c \in DOMAIN ctl, file \in SequenceFiles, T \in 0..MaxSeqTimeout :
         FirstRun /\ cmd_input_sequence(c, file, T)
    \/ \E c \in DOMAIN ctl : Exit(c)
    \/ \E c \in DOMAIN ctl : Locate(c)
    \/ \E c \in DOMAIN ctl : ClearExists(c)
    \/ \E c \in DOMAIN ctl : ClearUnlink(c)
    \/ \E c \in DOMAIN ctl : WriteOpen(c)
    \/ \E c \in DOMAIN ctl : WriteData(c)
    \/ \E c \in DOMAIN ctl : LoopHead(c)
    \/ \E c \in DOMAIN ctl : PollExists(c)
    \/ \E c \in DOMAIN ctl : ReadResult(c)
    \/ \E c \in DOMAIN ctl : ConsumeUnlink(c)
    \/ Tick
    \/ Prompt /\ RespRead
    \/ \E h \in held, kind \in ResultKinds, success \in BOOLEAN :
         Prompt /\ RespWrite(h, kind, success)
    \/ \E h \in held : RespComplete(h)

SpecFacade == Init /\ [][NextFacade]_vars

----------------------------------------------------------------------------
(* Two controllers, each calling send_command once, on one mailbox with    *)
(* one responder.                                                           *)

InitShared ==
    /\ projectExists = TRUE
    /\ dirExists = TRUE
    /\ resultsFile = NoResult
    /\ logFile = NoLog
    /\ commandsFile = NoCommand
    /\ ctl = [c \in {1, 2} |-> IdleCtl]
    /\ now = 0
    /\ held = {}
    /\ observed = NoCommand
    /\ nCalls = 0
    /\ nWrites = 0
    /\ returns = <<>>

\* the command each controller sends
ActionOf(c) == IF c = 1 THEN "ping" ELSE "screenshot"

\* a call of a controller is under way or still to come
Busy == \E c \in DOMAIN ctl : ctl[c].pc # "done"

\* the timeouts of the two calls: none, or less than one poll interval
SharedTimeouts == {0, TimeoutStep}

NextShared ==
    \/ \E c \in DOMAIN ctl, timeout \in SharedTimeouts :
         /\ ctl[c].pc = "idle"
         /\ SendCommand(c, ActionOf(c), EmptyArgs, timeout)
    \/ \E c \in DOMAIN ctl : Locate(c)
    \/ \E c \in DOMAIN ctl : ClearExists(c)
    \/ \E c \in DOMAIN ctl : ClearUnlink(c)
    \/ \E c \in DOMAIN ctl : WriteOpen(c)
    \/ \E c \in DOMAIN ctl : WriteData(c)
    \/ \E c \in DOMAIN ctl : LoopHead(c)
    \/ \E c \in DOMAIN ctl : PollExists(c)
    \/ \E c \in DOMAIN ctl : ReadResult(c)
    \/ \E c \in DOMAIN ctl : ConsumeUnlink(c)
    \/ Tick
    \/ Busy /\ RespRead
    \/ \E h \in held, success \in BOOLEAN :
         Busy /\ RespWrite(h, "json", success)

SpecShared == InitShared /\ [][NextShared]_vars

----------------------------------------------------------------------------
(* The log reader run on a log file of any content, with any --category    *)
(* and --tail.                                                              *)

LogContents == UNION {[1..n -> LogLineSet] : n \in 0..MaxLogLen}

\* --tail: absent, or an integer (argparse type=int, line 462)
Tails == {<<>>} \cup {<<n>> : n \in -1..MaxLogLen}

InitLogs ==
    /\ projectExists = TRUE
    /\ \E used \in BOOLEAN :
         /\ dirExists = used
         /\ logFile \in IF used
                        THEN {NoLog} \cup {[exists |-> TRUE, lines |-> l] :
                                              l \in LogContents}
                        ELSE {NoLog}
    /\ resultsFile = NoResult
    /\ commandsFile = NoCommand
    /\ ctl = [c \in {1} |-> IdleCtl]
    /\ now = 0
    /\ held = {}
    /\ observed = NoCommand
    /\ nCalls = 0
    /\ nWrites = 0
    /\ returns = <<>>

NextLogs ==
    \/ \E c \in DOMAIN ctl, category \in Categories, tail \in Tails,
          tz \in Zones : CmdLogs(c, category, tail, tz)
    \/ \E c \in DOMAIN ctl : Locate(c)
    \/ \E c \in DOMAIN ctl : LogRead(c)

SpecLogs == InitLogs /\ [][NextLogs]_vars

----------------------------------------------------------------------------
(* Properties of send_command, checked under Spec *)

Returned(c) == ctl[c].pc = "done" /\ ctl[c].outcome = "returned"

TimedOut(c) == ctl[c].pc = "done" /\ ctl[c].outcome = "TimeoutError"

\* the call has got as far as opening the command file for writing; a
\* call that ended with FileNotFoundError after that had found a result
\* file (line 81), which another controller removed before line 83 or 84
Published(c) ==
    \/ ctl[c].pc \in {"write", "loop", "poll", "read", "consume"}
    \/ Returned(c)
    \/ TimedOut(c)
    \/ ctl[c].pc = "done" /\ ctl[c].outcome = "UnicodeDecodeError"
    \/ /\ ctl[c].pc = "done"
       /\ ctl[c].outcome = "FileNotFoundError"
       /\ ctl[c].found

\* C1 as claimed: every Result a call returns is the responder's answer to
\* the command this call wrote, however late the responder answers.
C1_AnyDelay ==
    \A c \in DOMAIN ctl : Returned(c) => ctl[c].text.for = ctl[c].seq

\* C1 as amended: a Result a call returns is the answer to this call's own
\* command whenever the responder wrote it while the call that issued the
\* answered command was still under way.
C1_Correlation ==
    \A c \in DOMAIN ctl :
        Returned(c) /\ ~ctl[c].text.late => ctl[c].text.for = ctl[c].seq

\* the second call returns the answer to its own command
C1_Witness ==
    \E c \in DOMAIN ctl :
        /\ Returned(c)
        /\ ctl[c].seq = 2
        /\ ctl[c].text.for = 2
        /\ ~ctl[c].text.late

\* C2: a result file present at invocation is deleted before the command
\* file is written, and its content is never what the call returns.
C2_StaleCleared ==
    \A c \in DOMAIN ctl :
        ctl[c].stale.exists =>
            /\ Published(c) => resultsFile.wid # ctl[c].stale.wid
            /\ Returned(c) => ctl[c].text.wid # ctl[c].stale.wid

\* a call that found a result file at invocation has returned another one
C2_Witness ==
    \E c \in DOMAIN ctl :
        /\ Returned(c)
        /\ ctl[c].stale.exists
        /\ ctl[c].text.wid > ctl[c].stale.wid

\* C3: a call that ends with the timeout error ends at least timeout and at
\* most timeout plus one poll interval after the wait began, and a call
\* that published its command and never found a result file ends that way.
C3_TimeoutBound ==
    \A c \in DOMAIN ctl :
        /\ TimedOut(c) =>
              /\ ctl[c].ended - ctl[c].start_time >= ctl[c].timeout
              /\ ctl[c].ended - ctl[c].start_time
                    <= ctl[c].timeout + PollInterval
        /\ ctl[c].pc = "done" /\ Published(c) /\ ~ctl[c].found
              => TimedOut(c)

\* a timeout of 50 ms has expired 100 ms after the wait began
C3_Witness ==
    \E c \in DOMAIN ctl :
        /\ TimedOut(c)
        /\ ~ctl[c].found
        /\ ctl[c].timeout = TimeoutStep
        /\ ctl[c].ended - ctl[c].start_time = PollInterval

\* C4 as claimed: a poll that reads a result file which is not a complete
\* valid result neither ends the call nor changes the file.
C4_ParseResilience ==
    [][\A c \in DOMAIN ctl :
          (/\ ctl[c].pc = "read"
           /\ resultsFile.exists
           /\ resultsFile.kind # "json"
           /\ ctl'[c] # ctl[c])
          => ctl'[c].pc # "done" /\ resultsFile' = resultsFile]_vars

\* C5: what a call returns is the content of the result file it read, with
\* the success flag as written; that file is gone when the call returns;
\* and no write of the responder is returned twice.
C5_ConsumeOnce ==
    /\ \A c \in DOMAIN ctl :
          Returned(c) =>
              /\ ctl[c].text.kind = "json"
              /\ ctl[c].result.success = ctl[c].text.success
              /\ ctl[c].result.message = ctl[c].text.message
              /\ resultsFile.wid # ctl[c].text.wid
    /\ \A i, j \in 1..Len(returns) : i < j => returns[i] # returns[j]

\* two calls have returned, the second one a Result with success = false
C5_Witness ==
    \E c \in DOMAIN ctl :
        /\ Returned(c)
        /\ ~ctl[c].result.success
        /\ Len(returns) = 2

\* C6 as claimed: whatever the responder reads from the command file is a
\* complete command record.
C6_AtomicPublish == observed.exists => observed.complete

\* C8 as claimed: the timeout error carries the timeout value and the
\* action name of the command sent.
C8_CarriesAction ==
    \A c \in DOMAIN ctl :
        TimedOut(c) =>
            /\ "timeout" \in DOMAIN ctl[c].err
            /\ "action" \in DOMAIN ctl[c].err
            /\ ctl[c].err.timeout = ctl[c].timeout
            /\ ctl[c].err.action = ctl[c].action

\* C8 as amended: the timeout error carries the timeout value and nothing
\* else of the call, and a call that ends with it returns no Result.
C8_TimeoutError ==
    \A c \in DOMAIN ctl :
        TimedOut(c) =>
            /\ DOMAIN ctl[c].err = {"timeout"}
            /\ ctl[c].err.timeout = ctl[c].timeout
            /\ ctl[c].result = NoValue
            /\ ctl[c].text = NoResult

\* a call with a timeout of 50 ms has ended with the timeout error while
\* the responder's half-written answer is in the result file
C8_Witness ==
    \E c \in DOMAIN ctl :
        /\ TimedOut(c)
        /\ ctl[c].timeout = TimeoutStep
        /\ resultsFile.exists
        /\ resultsFile.kind = "partial"

\* C9: without project.godot every step of the controller, in send_command
\* and in the log reader alike, leaves the mailbox as it is, and the call
\* ends with the configuration error.
C9_ConfigAbort ==
    [][\A c \in DOMAIN ctl :
          ~projectExists /\ ctl'[c] # ctl[c]
          => /\ files' = files
             /\ ctl'[c].pc \in {"locate", "done"}
             /\ ctl'[c].pc = "done"
                   => ctl'[c].outcome = "FileNotFoundError"]_vars

\* send_command has failed for want of project.godot on a mailbox that was
\* never created
C9_Witness ==
    \E c \in DOMAIN ctl :
        /\ ctl[c].pc = "done"
        /\ ctl[c].cmd = "direct"
        /\ ctl[c].outcome = "FileNotFoundError"
        /\ ~projectExists
        /\ ~dirExists
        /\ ~commandsFile.exists

----------------------------------------------------------------------------
(* Properties of the command handlers, checked under SpecFacade *)

\* the handler has finished after send_command returned a Result with
\* success = false
FailedResult(c) ==
    /\ ctl[c].pc = "exited"
    /\ ctl[c].sent
    /\ ctl[c].outcome = "returned"
    /\ ~ctl[c].result.success

\* C7 as claimed: after a Result with success = false every command
\* reports the Result's message, exits with a non-zero status and has not
\* read the Result's data.
C7_EveryCommand ==
    \A c \in DOMAIN ctl :
        FailedResult(c) =>
            /\ ctl[c].reported = ctl[c].result.message
            /\ ctl[c].exit # 0
            /\ ~ctl[c].dataRead

\* C7 as amended: after a Result with success = false, validate and
\* validate-all report the message, read the data and exit with status 1;
\* ping exits with status 1 without reporting the message; quit exits with
\* status 0 without reporting it; every other command reports the message,
\* exits with status 1 and does not read the data.
C7_ErrorSurface ==
    \A c \in DOMAIN ctl :
        FailedResult(c) =>
            CASE ctl[c].cmd \in {"validate", "validate-all"} ->
                    /\ ctl[c].reported = ctl[c].result.message
                    /\ ctl[c].exit = 1
                    /\ ctl[c].dataRead
              [] ctl[c].cmd = "ping" ->
                    /\ ctl[c].reported = "none"
                    /\ ctl[c].exit = 1
                    /\ ~ctl[c].dataRead
              [] ctl[c].cmd = "quit" ->
                    /\ ctl[c].reported = "none"
                    /\ ctl[c].exit = 0
                    /\ ~ctl[c].dataRead
              [] OTHER ->
                    /\ ctl[c].reported = ctl[c].result.message
                    /\ ctl[c].exit = 1
                    /\ ~ctl[c].dataRead

\* scene-tree has reported the message of a failed Result and exited with
\* status 1
C7_Witness ==
    \E c \in DOMAIN ctl :
        /\ FailedResult(c)
        /\ ctl[c].cmd = "scene-tree"
        /\ ctl[c].reported = "scene_tree"
        /\ ctl[c].exit = 1

\* C10 as claimed: for every sequence timeout T, T = 0 included, the wait
\* timeout handed to send_command is T + 10 seconds and the command's args
\* carry T as the sequence timeout.
C10_SequenceWait ==
    \A c \in DOMAIN ctl :
        ctl[c].cmd = "input sequence" /\ ctl[c].sent =>
            /\ ctl[c].timeout = Seconds(ctl[c].input.timeout + SequenceGrace)
            /\ "timeout" \in DOMAIN ctl[c].args
            /\ ctl[c].args.timeout = ctl[c].input.timeout

\* C11: once send_command has returned the responder's acceptance (success
\* = true), the next step of the sequence initiator is its exit with status
\* 0, a step that touches no file; the run has consumed exactly one result;
\* and after its exit the initiator takes no step at all, whatever the
\* responder appends to the log.
C11_AcceptanceOnly ==
    [][\A c \in DOMAIN ctl :
          ctl[c].cmd = "input sequence" =>
              /\ ctl[c].pc = "exited" => ctl'[c] = ctl[c]
              /\ (/\ Returned(c)
                  /\ ctl[c].result.success
                  /\ ctl'[c] # ctl[c])
                 => /\ ctl'[c].pc = "exited"
                    /\ ctl'[c].exit = 0
                    /\ ctl'[c].dataRead
                    /\ files' = files
                    /\ Len(returns') = 1]_vars

\* the initiator has exited with status 0 while the responder still plays
\* the sequence and the log has no "sequence complete" entry
C11_Witness ==
    \E c \in DOMAIN ctl :
        /\ ctl[c].cmd = "input sequence"
        /\ ctl[c].pc = "exited"
        /\ ctl[c].outcome = "returned"
        /\ ctl[c].exit = 0
        /\ \E h \in held : h.action = RunningSequence
        /\ \A i \in 1..Len(logFile.lines) : logFile.lines[i] # LineComplete

----------------------------------------------------------------------------
(* Properties of the log reader, checked under SpecLogs *)

\* the log reader has got to its end, by returning or by an exception
LogsDone(c) == ctl[c].cmd = "logs" /\ ctl[c].pc = "done"

\* the lines of the log that the category filter keeps
Kept(c) ==
    IF ctl[c].input.category # ""
    THEN Filter(StripSplit(logFile.lines), ctl[c].input.category)
    ELSE StripSplit(logFile.lines)

\* C12 as claimed: with --tail N, whatever N is, a reader that got through
\* the log has printed exactly the last min(N, k) of the k lines the
\* category filter keeps, in order, and never more than N of them.
C12_FilterThenTail ==
    \A c \in DOMAIN ctl :
        (/\ LogsDone(c)
         /\ ctl[c].outcome = "printed"
         /\ ctl[c].input.tail # <<>>)
        => LET N == ctl[c].input.tail[1]
               k == Len(Kept(c))
               n == IF N <= 0 THEN 0 ELSE IF N < k THEN N ELSE k
           IN  /\ Len(ctl[c].output) = n
               /\ Len(ctl[c].output) <= N
               /\ \A i \in 1..n :
                     ctl[c].output[i] =
                         PrintLine(Kept(c)[k - n + i], ctl[c].input.tz).out

\* C13 as claimed: the reader of an existing log ends without an exception
\* and has printed one output for every line left by filter and tail: the
\* structured entry, or the raw text of the line.
C13_NoLineLost ==
    \A c \in DOMAIN ctl :
        LogsDone(c) /\ logFile.exists
        => LET sel == Selected(logFile.lines, ctl[c].input.category,
                               ctl[c].input.tail)
           IN  /\ ctl[c].outcome = "printed"
               /\ Len(ctl[c].output) = Len(sel)
               /\ \A i \in 1..Len(ctl[c].output) :
                     \/ ~ctl[c].output[i].raw
                     \/ ctl[c].output[i] = [raw |-> TRUE, text |-> sel[i]]

\* C14 as claimed: no step of the log reader changes the mailbox, and on a
\* log file that is absent or has no entries the reader ends without an
\* exception having printed no entry.
C14_AbsentOrEmpty ==
    [][\A c \in DOMAIN ctl :
          ctl[c].cmd = "logs" /\ ctl'[c] # ctl[c]
          => /\ files' = files
             /\ (/\ ctl'[c].pc = "done"
                 /\ ctl'[c].cmd = "logs"
                 /\ ~logFile.exists \/ logFile.lines = <<>>)
                => /\ ctl'[c].outcome \in {"no_logs", "printed"}
                   /\ ctl'[c].output = <<>>]_vars

\* C15 as claimed: for every value token set-state sends a command, and the
\* value it carries is what the first of JSON parsing, integer parsing and
\* float parsing to succeed makes of the token, or the token itself when
\* none succeeds.
C15_CoercionOrder ==
    \A c \in DOMAIN ctl :
        ctl[c].cmd = "set-state" =>
            LET tok == ctl[c].input.value IN
            /\ ctl[c].sent
            /\ ctl[c].args.value =
                  IF json_parse(tok).t # "raises" THEN json_parse(tok)
                  ELSE IF int_parse(tok).t # "raises" THEN int_parse(tok)
                  ELSE IF float_parse(tok).t # "raises" THEN float_parse(tok)
                  ELSE [t |-> "str", v |-> tok]

----------------------------------------------------------------------------
(* Further properties of send_command and of the log reader, checked under *)
(* Spec, and of two controllers, checked under SpecShared                   *)

\* the step with which the call of c ends with the timeout error
TimeoutStepOf(c) ==
    /\ ctl[c].pc # "done"
    /\ ctl'[c].pc = "done"
    /\ ctl'[c].outcome = "TimeoutError"

\* the command record the call of c publishes
Record(c) == json_dumps(ctl[c].action, ctl[c].args, ctl[c].seq)

\* C16 as claimed: a call has ended with the timeout error only if the
\* responder wrote no valid answer to its command while the call was
\* waiting with its deadline still ahead.
C16_NothingParseable ==
    \A c \in DOMAIN ctl :
        TimedOut(c) => ~(/\ resultsFile.exists
                         /\ resultsFile.kind = "json"
                         /\ resultsFile.for = ctl[c].seq
                         /\ resultsFile.early)

\* C16 as amended: a poll that finds a result file reads it, a parseable
\* file that is read is consumed, and the timeout error is raised only at
\* the loop condition, once the deadline has passed, by a call that has
\* read no parseable file.
C16_PollDecides ==
    [][\A c \in DOMAIN ctl :
          /\ (/\ ctl[c].pc = "poll"
              /\ resultsFile.exists
              /\ ctl'[c] # ctl[c]) => ctl'[c].pc = "read"
          /\ (/\ ctl[c].pc = "read"
              /\ resultsFile.exists
              /\ resultsFile.kind = "json"
              /\ ctl'[c] # ctl[c])
             => ctl'[c].pc = "consume" /\ ctl'[c].text = resultsFile
          /\ TimeoutStepOf(c)
             => /\ ctl[c].pc = "loop"
                /\ ctl[c].text = NoResult
                /\ now - ctl[c].start_time >= ctl[c].timeout]_vars

\* a call has timed out although the responder wrote a valid answer to its
\* command before the deadline, after the last poll; the answer is still
\* in the result file
C16_Witness ==
    \E c \in DOMAIN ctl :
        /\ TimedOut(c)
        /\ ctl[c].timeout > 0
        /\ resultsFile.exists
        /\ resultsFile.kind = "json"
        /\ resultsFile.for = ctl[c].seq
        /\ resultsFile.early

\* C17 as claimed: with project.godot in place a send_command call that
\* has ended has returned a Result or raised the timeout error.
C17_TwoOutcomes ==
    \A c \in DOMAIN ctl :
        ctl[c].pc = "done" /\ ctl[c].cmd = "direct" /\ projectExists
        => ctl[c].outcome \in {"returned", "TimeoutError"}

\* C18: with two controllers on one mailbox a Result that the responder
\* wrote while the call it answers was under way is returned by a call
\* with another command only if another controller's call was under way
\* during that call; the witness is such a return.
C18_OverlapOnly ==
    \A c \in DOMAIN ctl :
        Returned(c) /\ ~ctl[c].text.late /\ ~ctl[c].overlap
        => ctl[c].text.for = ctl[c].seq

\* a controller has returned the Result that the responder wrote, during
\* the other controller's call, in answer to the other controller's command
C18_Witness ==
    \E c \in DOMAIN ctl, d \in DOMAIN ctl :
        /\ c # d
        /\ Returned(c)
        /\ ctl[c].overlap
        /\ ~ctl[c].text.late
        /\ ctl[c].text.for = ctl[d].seq
        /\ ctl[c].action # ctl[d].action
        /\ ctl[c].result.message = ctl[d].action

\* C19 as claimed: the steps of a call between publishing and the timeout
\* error change no file, and at the step that raises the timeout error no
\* result file exists and the command file holds the call's record.
C19_NoResultAtTimeout ==
    [][\A c \in DOMAIN ctl :
          /\ (ctl[c].pc \in {"loop", "poll", "read"} /\ ctl'[c] # ctl[c])
             => files' = files
          /\ TimeoutStepOf(c)
             => /\ ~resultsFile'.exists
                /\ commandsFile' = Record(c)]_vars

\* C19 as amended: the steps of a call between publishing and the timeout
\* error change no file, and at the step that raises the timeout error the
\* command file holds the call's record unless the responder has taken it.
C19_TimeoutFrame ==
    [][\A c \in DOMAIN ctl :
          /\ (ctl[c].pc \in {"loop", "poll", "read"} /\ ctl'[c] # ctl[c])
             => files' = files
          /\ TimeoutStepOf(c)
             => \/ commandsFile' = Record(c)
                \/ commandsFile' = NoCommand /\ observed' = Record(c)]_vars

\* a call has timed out, no result file exists, and its command is still
\* in the command file, not read by the responder
C19_Witness ==
    \E c \in DOMAIN ctl :
        /\ TimedOut(c)
        /\ ~resultsFile.exists
        /\ commandsFile = Record(c)
        /\ observed # Record(c)

\* C20: the log file changes only by a step that is not the controller's
\* and that appends one line to it.
C20_LogReadOnly ==
    [][logFile' # logFile
       => /\ ctl' = ctl
          /\ logFile'.exists
          /\ Len(logFile'.lines) = Len(logFile.lines) + 1
          /\ SubSeq(logFile'.lines, 1, Len(logFile.lines))
                = logFile.lines]_vars

\* after a send_command call the log reader has printed the entry that the
\* responder appended to the log, and the log still holds it
C20_Witness ==
    \E c \in DOMAIN ctl :
        /\ LogsDone(c)
        /\ ctl[c].seq = 2
        /\ ctl[c].outcome = "printed"
        /\ Len(ctl[c].output) = 1
        /\ ~ctl[c].output[1].raw
        /\ ctl[c].output[1].category = "devtools"
        /\ logFile.lines = <<LineReceived>>

====
